---- MODULE Spec2Model ----
(***************************************************************************)
(* Model of generator.py: the Excel -> HTML bibliography generator.        *)
(*                                                                         *)
(* Cell values are sequences of one-character strings, so that strip(),    *)
(* lower(), the 4-digit year search and the code-point ordering of venue   *)
(* names are computed as Python computes them.  An HTML document is a      *)
(* sequence of tokens; every string the code searches for ('<a name="x"',  *)
(* '<h3', '</h3>', '<tr', '</tr>', '</table>', '<td class="title x"',      *)
(* 'Last updated', 'Last updated:') starts or ends a token, so that every  *)
(* str.find / slice of the code falls on a token boundary.                 *)
(***************************************************************************)
EXTENDS Integers, Sequences, FiniteSets, TLC

VARIABLES
    pc,               \* position inside generate_html_from_excel
    run,              \* 1: first merge, 2: merge of the first output again
    df,               \* the rows read from the sheet
    grouped_entries,  \* anchor -> [present, years, entries_by_year]
    template_html,    \* the template document
    new_sections,     \* anchor -> rendered section (<<>> when the key is absent)
    years_by_anchor,  \* anchor -> valid years (<<>> when the key is absent)
    anchors_in_order, \* the anchors whose name occurs in the template
    i,                \* index of the section-replacement loop
    output_html,      \* the document being rewritten
    spans,            \* the [anchor, start, end] of every replacement done so far
    first_output,     \* the document written by the first run
    entry_rank,       \* last value returned by get_entry_rank
    ccf_value         \* last badge text computed by build_entry_html

vars == <<pc, run, df, grouped_entries, template_html, new_sections,
          years_by_anchor, anchors_in_order, i, output_html, spans,
          first_output, entry_rank, ccf_value>>

-----------------------------------------------------------------------------
(* Bounds of the model *)

\* longest data set of the grouping specification
MaxRows == 2

-----------------------------------------------------------------------------
(* Strings *)

\* the characters of the model in ascending code-point order
AsciiOrder ==
    <<" ", ",", "0", "1", "2", "3", "4", "5", "6", "7", "8", "9",
      "A", "B", "C", "D", "E", "F", "G", "H", "I", "J", "K", "L", "M",
      "N", "O", "P", "Q", "R", "S", "T", "U", "V", "W", "X", "Y", "Z",
      "a", "b", "c", "d", "e", "f", "g", "h", "i", "j", "k", "l", "m",
      "n", "o", "p", "q", "r", "s", "t", "u", "v", "w", "x", "y", "z">>

\* the rank of each character in that order
OrdTable ==
    [c \in {AsciiOrder[n] : n \in DOMAIN AsciiOrder} |->
        CHOOSE n \in DOMAIN AsciiOrder : AsciiOrder[n] = c]

Ord(c) == OrdTable[c]

IsDigit(c) == Ord(c) >= Ord("0") /\ Ord(c) <= Ord("9")

IsUpper(c) == Ord(c) >= Ord("A") /\ Ord(c) <= Ord("Z")

\* a missing cell (None / NaN); no string has this shape
NaN == <<"NaN">>

\* str.strip()
RECURSIVE lstrip(_)
lstrip(v) == IF v # <<>> /\ Head(v) = " " THEN lstrip(Tail(v)) ELSE v

RECURSIVE rstrip(_)
rstrip(v) ==
    IF v # <<>> /\ v[Len(v)] = " " THEN rstrip(SubSeq(v, 1, Len(v) - 1)) ELSE v

strip(v) == rstrip(lstrip(v))

\* str.lower()
lower(v) ==
    [n \in 1..Len(v) |->
        IF IsUpper(v[n]) THEN AsciiOrder[Ord(v[n]) + 26] ELSE v[n]]

\* s(v): None/NaN -> '', else str(v).strip()
s(v) == IF v = NaN THEN <<>> ELSE strip(v)

\* Python's str < str: by code point, a proper prefix first
RECURSIVE StrLess(_, _)
StrLess(a, b) ==
    IF b = <<>> THEN FALSE
    ELSE IF a = <<>> THEN TRUE
    ELSE IF Head(a) # Head(b) THEN Ord(Head(a)) < Ord(Head(b))
    ELSE StrLess(Tail(a), Tail(b))

-----------------------------------------------------------------------------
(* Ranking *)

str_A == <<"A">>
str_B == <<"B">>
str_C == <<"C">>
str_None == <<"N", "o", "n", "e">>
str_Preprint == <<"P", "r", "e", "p", "r", "i", "n", "t">>
str_ZZZ == <<"Z", "Z", "Z">>

CCF_RANK ==
    [r \in {str_A, str_B, str_C, str_None, str_Preprint} |->
        CASE r = str_A -> 0
          [] r = str_B -> 1
          [] r = str_C -> 2
          [] r = str_None -> 3
          [] r = str_Preprint -> 4]

\* Python's `x or y` on strings
Or(x, y) == IF x # <<>> THEN x ELSE y

\* a variant that lets a conference without rating borrow the journal's
entry_rating_borrowed(row) ==
    LET conf_ccf == s(row.CCF)
        journal_ccf == s(row.CCF1)
        conf == s(row.Conference)
        journal == s(row.Journal)
    IN  IF conf # <<>> THEN Or(conf_ccf, Or(journal_ccf, str_None))
        ELSE IF journal # <<>> THEN Or(journal_ccf, str_None)
        ELSE Or(conf_ccf, Or(journal_ccf, str_Preprint))

entry_rating(row) ==
    LET conf_ccf == s(row.CCF)
        journal_ccf == s(row.CCF1)
        conf == s(row.Conference)
        journal == s(row.Journal)
    IN  IF conf # <<>> THEN Or(conf_ccf, str_None)
        ELSE IF journal # <<>> THEN Or(journal_ccf, str_None)
        ELSE Or(conf_ccf, Or(journal_ccf, str_Preprint))

get_entry_rank(row) ==
    LET rating == entry_rating(row)
    IN  CCF_RANK[IF rating \in DOMAIN CCF_RANK THEN rating ELSE str_None]

venue_name(row) ==
    LET conf == s(row.Conference)
        journal == s(row.Journal)
    IN  IF conf # <<>> THEN conf ELSE IF journal # <<>> THEN journal ELSE str_ZZZ

\* a variant that sorts by rank alone
get_venue_sort_key_rank_only(row) == <<get_entry_rank(row), str_ZZZ>>

get_venue_sort_key(row) == <<get_entry_rank(row), venue_name(row)>>

\* Python's tuple comparison of two sort keys
KeyLess(k1, k2) ==
    \/ k1[1] < k2[1]
    \/ k1[1] = k2[1] /\ StrLess(k1[2], k2[2])

\* the badge text of build_entry_html; <<>> means that no badge is rendered
badge_value(entry) ==
    LET conf == s(entry.Conference)
        journal == s(entry.Journal)
        conf_ccf == s(entry.CCF)
        journal_ccf == s(entry.CCF1)
        raw == IF conf # <<>> /\ conf_ccf # <<>> THEN conf_ccf
               ELSE IF journal # <<>> /\ journal_ccf # <<>> THEN journal_ccf
               ELSE IF conf_ccf = str_Preprint \/ journal_ccf = str_Preprint
                    THEN str_Preprint
               ELSE <<>>
    IN  IF raw = <<>> THEN <<>>
        ELSE IF raw \in {str_A, str_B, str_C, str_None, str_Preprint} THEN raw
        ELSE str_None

\* to_year: the first run of four digits of the stripped release time, as an
\* integer; 0 stands for None (no year of the model is 0)
YearAt(vs, n) ==
    1000 * (Ord(vs[n]) - Ord("0")) + 100 * (Ord(vs[n + 1]) - Ord("0"))
        + 10 * (Ord(vs[n + 2]) - Ord("0")) + (Ord(vs[n + 3]) - Ord("0"))

\* a variant whose pattern is three digits long
to_year_three_digits(v) ==
    LET vs == s(v)
        hits == {n \in 1..(Len(vs) - 2) :
                    \A d \in 0..2 : IsDigit(vs[n + d])}
        m == CHOOSE n \in hits : \A h \in hits : n <= h
    IN  IF hits = {} THEN 0
        ELSE 100 * (Ord(vs[m]) - Ord("0")) + 10 * (Ord(vs[m + 1]) - Ord("0"))
                + (Ord(vs[m + 2]) - Ord("0"))

to_year(v) ==
    LET vs == s(v)
        hits == {n \in 1..(Len(vs) - 3) :
                    \A d \in 0..3 : IsDigit(vs[n + d])}
    IN  IF hits = {} THEN 0
        ELSE YearAt(vs, CHOOSE n \in hits : \A m \in hits : n <= m)

-----------------------------------------------------------------------------
(* Categories and anchors *)

Anchor_survey == "survey"
Anchor_benchmark == "benchmark"
Anchor_classic == "classic"
Anchor_augmented == "Learning-Augmented Classic Solvers"
Anchor_learning == "learning"

\* the items of CATEGORY_ANCHOR_MAP, in the order of the dict
CATEGORY_ANCHOR_MAP ==
    << [key |-> <<"s", "u", "r", "v", "e", "y">>, anchor |-> Anchor_survey],
       [key |-> <<"b", "e", "n", "c", "h", "m", "a", "r", "k">>,
        anchor |-> Anchor_benchmark],
       [key |-> <<"b", "e", "n", "c", "h", "m", "a", "r", "k", "s">>,
        anchor |-> Anchor_benchmark],
       [key |-> <<"c", "l", "a", "s", "s", "i", "c", "a", "l">>,
        anchor |-> Anchor_classic],
       [key |-> <<"a", "u", "g", "m", "e", "n", "t", "e", "d">>,
        anchor |-> Anchor_augmented],
       [key |-> <<"l", "e", "a", "r", "n", "i", "n", "g">>,
        anchor |-> Anchor_learning] >>

CategoryKeys == {CATEGORY_ANCHOR_MAP[k].key : k \in DOMAIN CATEGORY_ANCHOR_MAP}

\* the anchors in the order in which a dict filled by a loop over
\* CATEGORY_ANCHOR_MAP holds its keys (grouped_entries, new_sections,
\* years_by_anchor), which is also the fixed traversal order of the merge
AnchorOrder ==
    <<Anchor_survey, Anchor_benchmark, Anchor_classic, Anchor_augmented,
      Anchor_learning>>

Anchors == {AnchorOrder[k] : k \in DOMAIN AnchorOrder}

\* the ToC title cell of an anchor carries a CSS class; only the class of
\* 'Learning-Augmented Classic Solvers' ('augmented') does not contain the
\* anchor's name
ANCHOR_TOC_CLASS ==
    [a \in Anchors |-> IF a = Anchor_augmented THEN "augmented" ELSE a]

-----------------------------------------------------------------------------
(* Grouping: lines 306-323 *)

\* the category key a row is filed under: its Type, stripped and lower-cased
row_category(row) == lower(s(row.Type))

\* sorted(..., reverse=True) of a set of integers
RECURSIVE sorted_desc(_)
sorted_desc(S) ==
    IF S = {} THEN <<>>
    ELSE LET m == CHOOSE x \in S : \A y \in S : y <= x
         IN  <<m>> \o sorted_desc(S \ {m})

\* list.sort(key=get_venue_sort_key) on a list of row indices: stable
RECURSIVE sort_insert(_, _, _)
sort_insert(rows, sorted, x) ==
    IF sorted = <<>> THEN <<x>>
    ELSE IF KeyLess(get_venue_sort_key(rows[x]),
                    get_venue_sort_key(rows[Head(sorted)]))
         THEN <<x>> \o sorted
         ELSE <<Head(sorted)>> \o sort_insert(rows, Tail(sorted), x)

RECURSIVE sort_entries(_, _)
sort_entries(rows, entries) ==
    IF entries = <<>> THEN <<>>
    ELSE sort_insert(rows,
                     sort_entries(rows, SubSeq(entries, 1, Len(entries) - 1)),
                     entries[Len(entries)])

\* the elements of a set of row indices in ascending order: the order in
\* which a boolean mask keeps the rows of a DataFrame
RECURSIVE in_row_order(_)
in_row_order(S) ==
    IF S = {} THEN <<>>
    ELSE LET m == CHOOSE x \in S : \A y \in S : x <= y
         IN  <<m>> \o in_row_order(S \ {m})

NoGroup == [present |-> FALSE, years |-> <<>>, entries_by_year |-> <<>>]

\* one pass of the loop body for the category raw_cat
group_category(rows, raw_cat) ==
    LET df_cat == {n \in DOMAIN rows : row_category(rows[n]) = raw_cat}
        Year(n) == to_year(rows[n].ReleaseTime)
        dated == {n \in df_cat : Year(n) # 0}
        years == sorted_desc({Year(n) : n \in dated})
    IN  [empty |-> df_cat = {},
         group |-> [present |-> TRUE,
                    years |-> years,
                    entries_by_year |->
                        [k \in DOMAIN years |->
                            sort_entries(rows,
                                in_row_order({n \in dated : Year(n) = years[k]}))]]]

\* the whole loop: a category without rows is skipped, any other one
\* assigns grouped_entries[anchor]
RECURSIVE group_from(_, _, _)
group_from(rows, k, acc) ==
    IF k > Len(CATEGORY_ANCHOR_MAP) THEN acc
    ELSE LET item == CATEGORY_ANCHOR_MAP[k]
             g == group_category(rows, item.key)
         IN  group_from(rows, k + 1,
                        IF g.empty THEN acc
                        ELSE [acc EXCEPT ![item.anchor] = g.group])

group_all(rows) == group_from(rows, 1, [a \in Anchors |-> NoGroup])

-----------------------------------------------------------------------------
(* Documents *)

Tok(k, a, n) == [k |-> k, a |-> a, n |-> n]

SM(a) == Tok("sm", a, 0)         \* '<a name="{a}"', the marker of a section
H3(a) == Tok("h3", a, 0)         \* '></a> <h3 ...>title</h3>' of the template
H3Default(a) == Tok("h3dflt", a, 0) \* '></a>\n<h3>{a}</h3>'
Body(a) == Tok("body", a, 0)     \* the entries the template holds for a
YA(a, y) == Tok("ya", a, y)      \* '\n    <a name="{a}_{y}"></a>'
YH(y) == Tok("yh", "", y)        \* '<h3 class="wp-block-heading" ...> y </h3>'
Entry(n) == Tok("entry", "", n)  \* build_entry_html of row n: '<p> ... </p>'
TR == Tok("tr", "", 0)           \* '<tr ...>'
TD(a) == Tok("td", a, 0)         \* '<td class="title {css}" ...> ... </td>'
TRC == Tok("trc", "", 0)         \* '</tr>'
YL(a, y) == Tok("yl", a, y)      \* '<td><a href="#{a}_{y}">{y}</a></td>'
TABLEC == Tok("tablec", "", 0)   \* '</table>'
Txt(n) == Tok("txt", "", n)      \* other markup '<...>...'
POpen == Tok("popen", "", 0)     \* '\n<p style="text-align:center; ...">'
LU == Tok("lu", "", 0)           \* 'Last updated'
Colon == Tok("colon", "", 0)     \* ': '
Date(d) == Tok("date", "", d)    \* a date text, free of '<' and newline
PClose == Tok("pclose", "", 0)   \* '</p>\n'

\* `a in html` for an anchor name a: the tokens whose text contains it
Mentions(tok, a) ==
    /\ tok.a = a
    /\ \/ tok.k \in {"sm", "h3dflt", "ya", "yl"}
       \/ tok.k = "td" /\ ANCHOR_TOC_CLASS[a] = a

\* the kinds of token that hold '<h3' and '</h3>'
H3OpenKinds == {"h3", "h3dflt", "yh"}

H3CloseKinds == {"h3", "h3dflt", "yh"}

\* str.find restricted to [from, to), for a string that tokens of the given
\* kinds hold: the first index of such a token, 0 for -1.  Indices are
\* 1-based; the end of the document is Len + 1.
Find(html, kinds, from, to) ==
    LET hits == {n \in from..(to - 1) : n \in DOMAIN html /\ html[n].k \in kinds}
    IN  IF hits = {} THEN 0 ELSE CHOOSE n \in hits : \A m \in hits : n <= m

\* str.rfind restricted to [from, to)
RFind(html, kinds, from, to) ==
    LET hits == {n \in from..(to - 1) : n \in DOMAIN html /\ html[n].k \in kinds}
    IN  IF hits = {} THEN 0 ELSE CHOOSE n \in hits : \A m \in hits : m <= n

\* str.find for a string that names an anchor: the first index of the token
FindTok(html, tok, from, to) ==
    LET hits == {n \in from..(to - 1) : n \in DOMAIN html /\ html[n] = tok}
    IN  IF hits = {} THEN 0 ELSE CHOOSE n \in hits : \A m \in hits : n <= m

Slice(html, from, to) == SubSeq(html, from, to - 1)

End(html) == Len(html) + 1

FindMarker(html, a) == FindTok(html, SM(a), 1, End(html))

FindLastUpdated(html) == Find(html, {"lu"}, 1, End(html))

RECURSIVE Concat(_)
Concat(ss) == IF ss = <<>> THEN <<>> ELSE Head(ss) \o Concat(Tail(ss))

-----------------------------------------------------------------------------
(* Rendering of the sections: lines 329-363 *)

\* the title block of the category, kept from the template
header_block(html, anchor) ==
    LET start_anchor_idx == FindMarker(html, anchor)
        h3_start == Find(html, H3OpenKinds, start_anchor_idx, End(html))
        h3_end == IF h3_start = 0 THEN 0
                  ELSE Find(html, H3CloseKinds, h3_start, End(html))
    IN  IF start_anchor_idx # 0 /\ h3_start # 0 /\ h3_end # 0
        THEN Slice(html, start_anchor_idx, h3_end + 1)
        ELSE <<SM(anchor), H3Default(anchor)>>

render_year(anchor, year, entries) ==
    <<YA(anchor, year), YH(year)>> \o [k \in DOMAIN entries |-> Entry(entries[k])]

\* new_sections[anchor] for a group with at least one year
render_section(html, anchor, data) ==
    header_block(html, anchor)
        \o Concat([k \in DOMAIN data.years |->
                     render_year(anchor, data.years[k], data.entries_by_year[k])])

HasData(groups, a) == groups[a].present /\ groups[a].years # <<>>

build_sections(html, groups) ==
    [a \in Anchors |->
        IF HasData(groups, a) THEN render_section(html, a, groups[a]) ELSE <<>>]

build_years(groups) ==
    [a \in Anchors |-> IF HasData(groups, a) THEN groups[a].years ELSE <<>>]

\* lines 367-373: the anchors whose name occurs anywhere in the document
RECURSIVE filter_anchors(_, _)
filter_anchors(html, k) ==
    IF k > Len(AnchorOrder) THEN <<>>
    ELSE (IF \E n \in DOMAIN html : Mentions(html[n], AnchorOrder[k])
          THEN <<AnchorOrder[k]>> ELSE <<>>) \o filter_anchors(html, k + 1)

-----------------------------------------------------------------------------
(* Section replacement: lines 375-392 *)

\* i counts from 0 as enumerate() does; order[i + 1] is anchors_in_order[i]
section_start(html, order, idx) == FindMarker(html, order[idx + 1])

section_end(html, order, idx) ==
    LET found == IF idx + 1 < Len(order)
                 THEN FindMarker(html, order[idx + 2])
                 ELSE FindLastUpdated(html)
    IN  IF found = 0 THEN End(html) ELSE found

splice(html, start, end, text) ==
    Slice(html, 1, start) \o text \o Slice(html, end, End(html))

-----------------------------------------------------------------------------
(* rebuild_toc: lines 243-291 *)

new_year_row(anchor, years) ==
    <<TR>> \o [k \in DOMAIN years |-> YL(anchor, years[k])] \o <<TRC>>

\* one pass of the loop body
toc_anchor(out, anchor, years) ==
    LET title_idx == FindTok(out, TD(anchor), 1, End(out))
        tr_title_start == RFind(out, {"tr"}, 1, title_idx)
        tr_title_close == Find(out, {"trc"}, title_idx, End(out))
        tr_title_end == tr_title_close + 1
        table_close == Find(out, {"tablec"}, tr_title_end, End(out))
        table_end == IF table_close = 0 THEN End(out) ELSE table_close
        tr_year_start == Find(out, {"tr"}, tr_title_end, table_end)
        tr_year_close == IF tr_year_start = 0 THEN 0
                         ELSE Find(out, {"trc"}, tr_year_start, table_end)
        replace_start == IF tr_year_start # 0 THEN tr_year_start ELSE tr_title_end
        replace_end == IF tr_year_close # 0 THEN tr_year_close + 1 ELSE tr_title_end
    IN  IF title_idx = 0 \/ tr_title_start = 0 \/ tr_title_close = 0 THEN out
        ELSE Slice(out, 1, replace_start) \o new_year_row(anchor, years)
                \o Slice(out, replace_end, End(out))

RECURSIVE toc_from(_, _, _)
toc_from(out, years, k) ==
    IF k > Len(AnchorOrder) THEN out
    ELSE toc_from(IF years[AnchorOrder[k]] = <<>> THEN out
                  ELSE toc_anchor(out, AnchorOrder[k], years[AnchorOrder[k]]),
                  years, k + 1)

rebuild_toc(html, years) == toc_from(html, years, 1)

-----------------------------------------------------------------------------
(* Timestamp: lines 397-412 *)

\* re.sub(r'(Last updated:\s*)([^<\n]*)', r'\1' + date_str, html, count=1)
stamp_first(html, date) ==
    LET hits == {n \in DOMAIN html :
                    html[n] = LU /\ n + 1 \in DOMAIN html /\ html[n + 1] = Colon}
        m == CHOOSE n \in hits : \A h \in hits : n <= h
        old == IF m + 2 \in DOMAIN html /\ html[m + 2].k = "date" THEN 1 ELSE 0
    IN  IF hits = {} THEN html
        ELSE Slice(html, 1, m + 2) \o <<Date(date)>>
                \o Slice(html, m + 2 + old, End(html))

stamp(html, date) ==
    IF FindLastUpdated(html) # 0 THEN stamp_first(html, date)
    ELSE html \o <<POpen, LU, Colon, Date(date), PClose>>

-----------------------------------------------------------------------------
(* Inputs: the rows of the sheet and the template document *)

Row(type, time, conf, ccf, journal, ccf1) ==
    [Type |-> type, ReleaseTime |-> time, Conference |-> conf, CCF |-> ccf,
     Journal |-> journal, CCF1 |-> ccf1]

str_2021 == <<"2", "0", "2", "1">>
str_2020 == <<"2", "0", "2", "0">>
str_AAAI == <<"A", "A", "A", "I">>
str_ICRA == <<"I", "C", "R", "A">>
str_AIJ == <<"A", "I", "J">>

\* a template is the page the generator was written for, with at most one
\* departure from it; a departure names what is missing or moved
Departures ==
    {[kind |-> "none", a |-> ""]}
        \cup {[kind |-> k, a |-> a] :
                k \in {"no_section", "no_header", "no_toc", "no_year_row",
                       "no_table_end"},
                a \in Anchors}
        \cup {[kind |-> "swapped", a |-> AnchorOrder[k]] :
                k \in 1..(Len(AnchorOrder) - 1)}

\* where the page holds its 'Last updated' text
LastUpdatedForms == {"end", "none", "nocolon", "top"}

toc_block(a, d) ==
    IF d = [kind |-> "no_toc", a |-> a] THEN <<>>
    ELSE <<TR, TD(a), TRC>>
            \o (IF d = [kind |-> "no_year_row", a |-> a] THEN <<>>
                ELSE <<TR, YL(a, 2019), TRC>>)
            \o (IF d = [kind |-> "no_table_end", a |-> a] THEN <<>>
                ELSE <<TABLEC>>)

section_block(a, d) ==
    IF d = [kind |-> "no_section", a |-> a] THEN <<>>
    ELSE <<SM(a)>>
            \o (IF d = [kind |-> "no_header", a |-> a] THEN <<>> ELSE <<H3(a)>>)
            \o <<Body(a)>>

\* the order of the sections in the page
section_order(d) ==
    IF d.kind # "swapped" THEN AnchorOrder
    ELSE LET k == CHOOSE n \in DOMAIN AnchorOrder : AnchorOrder[n] = d.a
         IN  [n \in DOMAIN AnchorOrder |->
                IF n = k THEN AnchorOrder[k + 1]
                ELSE IF n = k + 1 THEN AnchorOrder[k]
                ELSE AnchorOrder[n]]

last_updated_block(form) ==
    IF form = "nocolon" THEN <<POpen, LU, Txt(3), PClose>>
    ELSE <<POpen, LU, Colon, Date(0), PClose>>

Template(d, form) ==
    <<Txt(0)>>
        \o Concat([k \in DOMAIN AnchorOrder |-> toc_block(AnchorOrder[k], d)])
        \o <<Txt(1)>>
        \o (IF form = "top" THEN last_updated_block(form) ELSE <<>>)
        \o Concat([k \in DOMAIN AnchorOrder |->
                     section_block(section_order(d)[k], d)])
        \o (IF form \in {"end", "nocolon"} THEN last_updated_block(form) ELSE <<>>)
        \o <<Txt(2)>>

Templates == {Template(d, form) : d \in Departures, form \in LastUpdatedForms}

WellFormedTemplate == Template([kind |-> "none", a |-> ""], "end")

\* the rows of the merge specification: one per category key
MergeRows ==
    << Row(<<"s", "u", "r", "v", "e", "y">>, str_2021, str_AAAI, str_A, NaN, NaN),
       Row(<<"b", "e", "n", "c", "h", "m", "a", "r", "k">>, str_2020,
           str_ICRA, str_B, NaN, NaN),
       Row(<<"b", "e", "n", "c", "h", "m", "a", "r", "k", "s">>, NaN,
           NaN, NaN, NaN, NaN),
       Row(<<"c", "l", "a", "s", "s", "i", "c", "a", "l">>, str_2021,
           NaN, NaN, str_AIJ, str_A),
       Row(<<"a", "u", "g", "m", "e", "n", "t", "e", "d">>, str_2020,
           NaN, NaN, NaN, NaN),
       Row(<<"l", "e", "a", "r", "n", "i", "n", "g">>, str_2021,
           str_AAAI, str_A, NaN, NaN) >>

\* the rows of MergeRows picked by a set of indices, in sheet order
PickRows(S) == LET idx == in_row_order(S) IN [k \in DOMAIN idx |-> MergeRows[idx[k]]]

-----------------------------------------------------------------------------
(* generate_html_from_excel *)

NoSections == [a \in Anchors |-> <<>>]

Start(rows, html) ==
    /\ pc = "group"
    /\ run = 1
    /\ df = rows
    /\ template_html = html
    /\ grouped_entries = [a \in Anchors |-> NoGroup]
    /\ new_sections = NoSections
    /\ years_by_anchor = NoSections
    /\ anchors_in_order = <<>>
    /\ i = 0
    /\ output_html = <<>>
    /\ spans = <<>>
    /\ first_output = <<>>
    /\ entry_rank = 0
    /\ ccf_value = <<>>

Init == \E S \in SUBSET DOMAIN MergeRows, html \in Templates : Start(PickRows(S), html)

\* lines 306-323
Group ==
    /\ pc = "group"
    /\ grouped_entries' = group_all(df)
    /\ pc' = "sections"
    /\ UNCHANGED <<run, df, template_html, new_sections, years_by_anchor,
                   anchors_in_order, i, output_html, spans, first_output,
                   entry_rank, ccf_value>>

\* lines 326-373
BuildSections ==
    /\ pc = "sections"
    /\ new_sections' = build_sections(template_html, grouped_entries)
    /\ years_by_anchor' = build_years(grouped_entries)
    /\ output_html' = template_html
    /\ anchors_in_order' = filter_anchors(template_html, 1)
    /\ i' = 0
    /\ pc' = "replace"
    /\ UNCHANGED <<run, df, grouped_entries, template_html, spans, first_output,
                   entry_rank, ccf_value>>

\* lines 375-392, an iteration that replaces
ReplaceSection ==
    /\ pc = "replace"
    /\ i < Len(anchors_in_order)
    /\ LET anchor == anchors_in_order[i + 1]
           start == section_start(output_html, anchors_in_order, i)
           end == section_end(output_html, anchors_in_order, i)
       IN  /\ new_sections[anchor] # <<>>
           /\ start # 0
           /\ output_html' = splice(output_html, start, end, new_sections[anchor])
           /\ spans' = Append(spans, [anchor |-> anchor, start |-> start,
                                      end |-> end, before |-> output_html])
    /\ i' = i + 1
    /\ UNCHANGED <<pc, run, df, grouped_entries, template_html, new_sections,
                   years_by_anchor, anchors_in_order, first_output, entry_rank,
                   ccf_value>>

\* lines 375-381, an iteration that ends in `continue`
SkipSection ==
    /\ pc = "replace"
    /\ i < Len(anchors_in_order)
    /\ LET anchor == anchors_in_order[i + 1]
       IN  \/ new_sections[anchor] = <<>>
           \/ section_start(output_html, anchors_in_order, i) = 0
    /\ i' = i + 1
    /\ UNCHANGED <<pc, run, df, grouped_entries, template_html, new_sections,
                   years_by_anchor, anchors_in_order, output_html, spans,
                   first_output, entry_rank, ccf_value>>

\* line 395
RebuildToc ==
    /\ pc = "replace"
    /\ i = Len(anchors_in_order)
    /\ output_html' = rebuild_toc(output_html, years_by_anchor)
    /\ pc' = "stamp"
    /\ UNCHANGED <<run, df, grouped_entries, template_html, new_sections,
                   years_by_anchor, anchors_in_order, i, spans, first_output,
                   entry_rank, ccf_value>>

\* lines 397-415; the second run happens on the same day or on the next one
Timestamp ==
    /\ pc = "stamp"
    /\ \E date \in 1..run : output_html' = stamp(output_html, date)
    /\ pc' = "written"
    /\ UNCHANGED <<run, df, grouped_entries, template_html, new_sections,
                   years_by_anchor, anchors_in_order, i, spans, first_output,
                   entry_rank, ccf_value>>

\* the program is run again on the same sheet, with the page it wrote as
\* the template
Rerun ==
    /\ pc = "written"
    /\ run = 1
    /\ run' = 2
    /\ pc' = "group"
    /\ template_html' = output_html
    /\ first_output' = output_html
    /\ grouped_entries' = [a \in Anchors |-> NoGroup]
    /\ new_sections' = NoSections
    /\ years_by_anchor' = NoSections
    /\ anchors_in_order' = <<>>
    /\ i' = 0
    /\ output_html' = <<>>
    /\ spans' = <<>>
    /\ UNCHANGED <<df, entry_rank, ccf_value>>

Next ==
    \/ Group
    \/ BuildSections
    \/ ReplaceSection
    \/ SkipSection
    \/ RebuildToc
    \/ Timestamp
    \/ Rerun

Spec == Init /\ [][Next]_vars

-----------------------------------------------------------------------------
(* The grouping specification: any short sheet, merged into the page the
   generator was written for *)

str_Survey == <<" ", "S", "u", "r", "v", "e", "y">>
str_thesis == <<"t", "h", "e", "s", "i", "s">>
str_IJCAI_2020 == <<" ", "I", "J", "C", "A", "I", ",", " ", "2", "0", "2", "0">>
str_202 == <<"2", "0", "2">>

str_Benchmarks == <<"B", "e", "n", "c", "h", "m", "a", "r", "k", "s">>

\* surveys of every release time and venue, one row of another category and
\* one row of an unknown category
GroupRows ==
    {Row(str_Survey, time, v[1], v[2], NaN, NaN) :
        time \in {str_2021, str_IJCAI_2020, str_202},
        v \in {<<str_ICRA, str_A>>, <<str_AAAI, str_A>>, <<str_AAAI, str_B>>,
               <<NaN, NaN>>}}
        \cup {Row(str_Benchmarks, str_2021, NaN, NaN, str_AIJ, str_B),
              Row(str_thesis, str_2021, str_AAAI, str_A, NaN, NaN)}

Sheets(rows, len) == UNION {[1..n -> rows] : n \in 0..len}

InitGroup == \E rows \in Sheets(GroupRows, MaxRows) : Start(rows, WellFormedTemplate)

NextOnce ==
    \/ Group
    \/ BuildSections
    \/ ReplaceSection
    \/ SkipSection
    \/ RebuildToc
    \/ Timestamp

SpecGroup == InitGroup /\ [][NextOnce]_vars

-----------------------------------------------------------------------------
(* The ranking specification: get_entry_rank and the badge of
   build_entry_html on one row *)

str_D == <<"D">>
str_A_padded == <<" ", "A">>
str_blank == <<" ">>
RatingCells == {NaN, str_A, str_B, str_C, str_None, str_Preprint, str_D, str_A_padded}

RankRows ==
    {Row(<<"s", "u", "r", "v", "e", "y">>, str_2021, conf, ccf, journal, ccf1) :
        conf \in {NaN, str_blank, str_AAAI},
        journal \in {NaN, str_AIJ},
        ccf \in RatingCells,
        ccf1 \in RatingCells}

InitRank ==
    /\ pc = "rank"
    /\ run = 1
    /\ df \in {<<row>> : row \in RankRows}
    /\ template_html = <<>>
    /\ grouped_entries = [a \in Anchors |-> NoGroup]
    /\ new_sections = NoSections
    /\ years_by_anchor = NoSections
    /\ anchors_in_order = <<>>
    /\ i = 0
    /\ output_html = <<>>
    /\ spans = <<>>
    /\ first_output = <<>>
    /\ entry_rank = 0
    /\ ccf_value = <<>>

\* lines 74-86, as called by get_venue_sort_key
GetEntryRank ==
    /\ pc = "rank"
    /\ entry_rank' = get_entry_rank(df[1])
    /\ pc' = "badge"
    /\ UNCHANGED <<run, df, grouped_entries, template_html, new_sections,
                   years_by_anchor, anchors_in_order, i, output_html, spans,
                   first_output, ccf_value>>

\* lines 128-153
BuildEntryBadge ==
    /\ pc = "badge"
    /\ ccf_value' = badge_value(df[1])
    /\ pc' = "ranked"
    /\ UNCHANGED <<run, df, grouped_entries, template_html, new_sections,
                   years_by_anchor, anchors_in_order, i, output_html, spans,
                   first_output, entry_rank>>

NextRank ==
    \/ GetEntryRank
    \/ BuildEntryBadge

SpecRank == InitRank /\ [][NextRank]_vars

-----------------------------------------------------------------------------
(* Vocabulary of the properties *)

\* a row qualifies when its Type, trimmed and lower-cased, is a key of the
\* category map and its Release Time holds a run of four digits
HasFourDigits(v) ==
    /\ v # NaN
    /\ \E n \in 1..(Len(v) - 3) : \A d \in 0..3 : IsDigit(v[n + d])

Qualifies(row) ==
    /\ row.Type # NaN
    /\ lower(strip(row.Type)) \in CategoryKeys
    /\ HasFourDigits(row.ReleaseTime)

AnchorOfRow(row) ==
    LET k == CHOOSE n \in DOMAIN CATEGORY_ANCHOR_MAP :
                CATEGORY_ANCHOR_MAP[n].key = lower(strip(row.Type))
    IN  CATEGORY_ANCHOR_MAP[k].anchor

Count(html, tok) == Cardinality({n \in DOMAIN html : html[n] = tok})

\* the number of places at which the text part occurs in html
Occurrences(html, part) ==
    Cardinality({n \in 1..(Len(html) - Len(part) + 1) :
                    SubSeq(html, n, n + Len(part) - 1) = part})

\* the section of an anchor in a page: from its marker up to the next
\* section marker, the 'Last updated' paragraph or the end of the page
SectionOf(html, a) ==
    LET start == FindMarker(html, a)
        stop == Find(html, {"sm", "popen", "lu"}, start + 1, End(html))
    IN  IF start = 0 THEN <<>>
        ELSE Slice(html, start, IF stop = 0 THEN End(html) ELSE stop)

\* the row that follows the ToC title row of an anchor
TocRowOf(html, a) ==
    LET title == FindTok(html, TD(a), 1, End(html))
        close == Find(html, {"trc"}, title, End(html))
        next == Find(html, {"trc"}, close + 1, End(html))
    IN  IF title = 0 \/ close = 0 \/ next = 0 THEN <<>>
        ELSE Slice(html, close + 1, next + 1)

Written == pc = "written"

-----------------------------------------------------------------------------
(* C1 *)

\* C1: every replacement of the section loop has start <= end, lies after
\* the section the previous replacement wrote, and covers no other
\* category's marker: it touches the category's own section only.
C1_ReplacementsFramed ==
    \A k \in DOMAIN spans :
        /\ spans[k].start <= spans[k].end
        /\ k > 1 =>
             spans[k].start >=
                spans[k - 1].start + Len(new_sections[spans[k - 1].anchor])
        /\ \A n \in (spans[k].start + 1)..(spans[k].end - 1) :
             spans[k].before[n].k # "sm"

-----------------------------------------------------------------------------
(* C2 *)

\* C2: merging the page written by a first run again, with the same rows,
\* leaves every category section and every ToC year row as the first run
\* wrote them, and the page does not grow.
C2_MergeIdempotent ==
    (Written /\ run = 2) =>
        /\ \A a \in Anchors :
             /\ SectionOf(output_html, a) = SectionOf(first_output, a)
             /\ TocRowOf(output_html, a) = TocRowOf(first_output, a)
        /\ Len(output_html) <= Len(first_output)

-----------------------------------------------------------------------------
(* C3 *)

\* C3: after the merge, the template section and the template ToC year row
\* of every anchor without qualifying rows are in the page, unchanged.
C3_NoDataUntouched ==
    (Written /\ run = 1) =>
        \A a \in Anchors :
            ~HasData(grouped_entries, a) =>
                /\ SectionOf(template_html, a) # <<>> =>
                     Occurrences(output_html, SectionOf(template_html, a)) = 1
                /\ TocRowOf(output_html, a) = TocRowOf(template_html, a)

-----------------------------------------------------------------------------
(* C6 *)

\* C6: the page that is written holds the 'Last updated' marker followed by
\* the current date, at the first occurrence of the marker.
C6_StampedAtFirstMarker ==
    Written =>
        LET n == FindLastUpdated(output_html)
        IN  /\ n # 0
            /\ n + 2 \in DOMAIN output_html
            /\ output_html[n + 1] = Colon
            /\ output_html[n + 2] \in {Date(d) : d \in 1..run}

-----------------------------------------------------------------------------
(* C9 *)

\* C9: after the merge, the ToC row of every anchor with data whose title
\* row is found lists exactly the anchor's valid years, descending, and
\* every year link has its named sub-anchor in the page.
C9_TocLinksResolve ==
    (Written /\ run = 1) =>
        \A a \in Anchors :
            (years_by_anchor[a] # <<>>
                /\ FindTok(output_html, TD(a), 1, End(output_html)) # 0) =>
                  /\ TocRowOf(output_html, a) = new_year_row(a, years_by_anchor[a])
                  /\ \A k \in DOMAIN years_by_anchor[a] :
                       Count(output_html, YA(a, years_by_anchor[a][k])) >= 1

-----------------------------------------------------------------------------
(* C10 *)

\* the number of times row n is filed under anchor a and year y
TimesFiled(groups, a, y, n) ==
    Cardinality({<<k, m>> \in (DOMAIN groups[a].years) \X (DOMAIN df) :
                    /\ groups[a].years[k] = y
                    /\ m \in DOMAIN groups[a].entries_by_year[k]
                    /\ groups[a].entries_by_year[k][m] = n})

\* C10: grouping files every qualifying row exactly once, under the anchor
\* of its category and under its own year, and nowhere else.
C10_GroupingKeepsRows ==
    pc # "group" =>
        \A n \in DOMAIN df :
            Qualifies(df[n]) =>
                \A a \in Anchors :
                    \A y \in {to_year(df[m].ReleaseTime) : m \in DOMAIN df} :
                        TimesFiled(grouped_entries, a, y, n) =
                            IF a = AnchorOfRow(df[n])
                                /\ y = to_year(df[n].ReleaseTime)
                            THEN 1 ELSE 0

-----------------------------------------------------------------------------
(* C4 *)

\* the venue name of the claim: the conference if present, else the
\* journal, else "ZZZ"
Present(v) == v # NaN /\ strip(v) # <<>>

ClaimVenue(row) ==
    IF Present(row.Conference) THEN strip(row.Conference)
    ELSE IF Present(row.Journal) THEN strip(row.Journal)
    ELSE str_ZZZ

InOrder(r1, r2) ==
    \/ get_entry_rank(r1) < get_entry_rank(r2)
    \/ /\ get_entry_rank(r1) = get_entry_rank(r2)
       /\ ~StrLess(ClaimVenue(r2), ClaimVenue(r1))

SortedSection(sec) ==
    /\ \A p \in 1..(Len(sec) - 1) :
         (sec[p].k = "entry" /\ sec[p + 1].k = "entry") =>
            InOrder(df[sec[p].n], df[sec[p + 1].n])
    /\ \A p, q \in DOMAIN sec :
         (p < q /\ sec[p].k = "ya" /\ sec[q].k = "ya") => sec[p].n > sec[q].n

\* C4: in every rendered section, and in every section of the written page,
\* the entries of a year are in non-decreasing order of (rank, venue name)
\* and the years are in strictly descending order.
C4_GroupsSorted ==
    \A a \in Anchors :
        /\ SortedSection(new_sections[a])
        /\ Written => SortedSection(SectionOf(output_html, a))

\* a written page in which sorting moved a later row in front of an
\* earlier one
C4_Witness ==
    /\ Written
    /\ \E a \in Anchors :
         LET sec == SectionOf(output_html, a)
         IN  \E p \in 1..(Len(sec) - 1) :
                /\ sec[p].k = "entry"
                /\ sec[p + 1].k = "entry"
                /\ sec[p].n > sec[p + 1].n

-----------------------------------------------------------------------------
(* C7 *)

\* the years a row may be filed under: the value of a four-digit window of
\* its release time
YearsIn(v) ==
    IF v = NaN THEN {}
    ELSE {YearAt(v, n) : n \in {m \in 1..(Len(v) - 3) :
                                  \A d \in 0..3 : IsDigit(v[m + d])}}

\* C7: a row that does not qualify has no entry in any rendered section or
\* in the written page, and every year sub-anchor and every ToC year link
\* the merge adds is a year of a qualifying row of that anchor.
C7_OnlyQualifyingRows ==
    /\ \A n \in DOMAIN df :
         ~Qualifies(df[n]) =>
            /\ \A a \in Anchors : Count(new_sections[a], Entry(n)) = 0
            /\ Count(output_html, Entry(n)) = 0
    /\ \A p \in DOMAIN output_html :
         (output_html[p].k \in {"ya", "yl"}
            /\ Count(template_html, output_html[p]) = 0) =>
              \E m \in DOMAIN df :
                 /\ Qualifies(df[m])
                 /\ AnchorOfRow(df[m]) = output_html[p].a
                 /\ output_html[p].n \in YearsIn(df[m].ReleaseTime)

\* a written page that holds the entry of a qualifying row while the sheet
\* also holds a row of a known category without a year and a row of an
\* unknown category
C7_Witness ==
    /\ Written
    /\ \E m \in DOMAIN df : Qualifies(df[m]) /\ Count(output_html, Entry(m)) = 1
    /\ \E n \in DOMAIN df : ~Qualifies(df[n])

-----------------------------------------------------------------------------
(* C5 *)

Ranked == pc \in {"badge", "ranked"}

\* C5 as stated: rank 4 for every row without conference and journal,
\* whatever its rating cells hold; rank 3 for every row whose ranking venue
\* has no rating of its own.
C5_PreprintWhateverRatings ==
    Ranked =>
        LET row == df[1]
        IN  /\ (~Present(row.Conference) /\ ~Present(row.Journal)) =>
                  entry_rank = 4
            /\ (Present(row.Conference) /\ ~Present(row.CCF)) => entry_rank = 3
            /\ (~Present(row.Conference) /\ Present(row.Journal)
                    /\ ~Present(row.CCF1)) => entry_rank = 3

\* C5 as amended: rank 4 for every row without conference and journal
\* whose two rating cells are both empty; rank 3 for every row whose ranking
\* venue (the conference if present, else the journal) has no rating of its
\* own.
C5_PreprintWithoutRatings ==
    Ranked =>
        LET row == df[1]
        IN  /\ (~Present(row.Conference) /\ ~Present(row.Journal)
                    /\ ~Present(row.CCF) /\ ~Present(row.CCF1)) =>
                  entry_rank = 4
            /\ (Present(row.Conference) /\ ~Present(row.CCF)) => entry_rank = 3
            /\ (~Present(row.Conference) /\ Present(row.Journal)
                    /\ ~Present(row.CCF1)) => entry_rank = 3

\* a row without venue and without ratings has been ranked 4
C5_Witness ==
    /\ Ranked
    /\ ~Present(df[1].Conference) /\ ~Present(df[1].Journal)
    /\ ~Present(df[1].CCF) /\ ~Present(df[1].CCF1)
    /\ entry_rank = 4

-----------------------------------------------------------------------------
(* C8 *)

\* C8: for a row with a conference and a journal, neither the rank nor the
\* badge depends on the journal rating, and a badge that is shown shows the
\* rating the row was ranked by.
C8_ConferenceRatingOnly ==
    (pc = "ranked" /\ Present(df[1].Conference) /\ Present(df[1].Journal)) =>
        /\ \A v \in RatingCells :
             /\ get_entry_rank([df[1] EXCEPT !.CCF1 = v]) = entry_rank
             /\ badge_value([df[1] EXCEPT !.CCF1 = v]) = ccf_value
        /\ ccf_value # <<>> => CCF_RANK[ccf_value] = entry_rank

====
